---- MODULE Spec2Model ----
(***************************************************************************)
(* Model of the Zero-Shot vs Zero-Shot-CoT experiment runner               *)
(* (src/cot_experiment.py): prompt construction, answer scoring, the       *)
(* retrying provider call, provider selection, the question loop of main   *)
(* and the persistence of a run's results.                                 *)
(*                                                                         *)
(* Texts are sequences of characters; a character is a one-token string.   *)
(***************************************************************************)
EXTENDS Integers, Sequences, FiniteSets, TLC

(***************************************************************************)
(* Bounds of the model.                                                    *)
(***************************************************************************)
MaxLen == 3
MaxRetry == 2
MaxQuestions == 2
MaxRuns == 2

(***************************************************************************)
(* Characters.  " " and "\n" are whitespace (str.strip removes them);      *)
(* "a", "b", "4", "5" are lower-case alphanumerics; "A" is an upper-case   *)
(* letter; "?" is punctuation; "I." stands for U+0130, an alphanumeric     *)
(* letter whose str.lower() is the two characters "i" and U+0307, the      *)
(* latter ("dot") a combining mark that is not alphanumeric.               *)
(***************************************************************************)
IsSpace(ch) == ch \in {" ", "\n"}

IsAlnum(ch) == ch \notin {" ", "\n", "?", "dot", "[", "]", "=", ">", ":", "."}

Lower(ch) ==
    CASE ch = "A" -> <<"a">>
      [] ch = "I." -> <<"i", "dot">>
      [] OTHER -> <<ch>>

RECURSIVE SeqsUpTo(_, _)
SeqsUpTo(S, n) ==
    IF n = 0 THEN {<<>>}
    ELSE LET shorter == SeqsUpTo(S, n - 1)
         IN  shorter \cup {Append(s, c) : s \in shorter, c \in S}

(***************************************************************************)
(* str.strip(): drop leading and trailing whitespace.                      *)
(***************************************************************************)
RECURSIVE LStrip(_)
LStrip(s) ==
    IF s = <<>> THEN <<>>
    ELSE IF IsSpace(Head(s)) THEN LStrip(Tail(s)) ELSE s

RECURSIVE RStrip(_)
RStrip(s) ==
    IF s = <<>> THEN <<>>
    ELSE IF IsSpace(s[Len(s)]) THEN RStrip(SubSeq(s, 1, Len(s) - 1)) ELSE s

Strip(s) == RStrip(LStrip(s))

(***************************************************************************)
(* str.endswith(suffix).                                                   *)
(***************************************************************************)
EndsWith(s, suffix) ==
    /\ Len(suffix) <= Len(s)
    /\ SubSeq(s, Len(s) - Len(suffix) + 1, Len(s)) = suffix

(***************************************************************************)
(* normalize_text: "".join(ch.lower() for ch in s if ch.isalnum()).        *)
(***************************************************************************)
RECURSIVE normalize_text(_)
normalize_text(s) ==
    IF s = <<>> THEN <<>>
    ELSE IF IsAlnum(Head(s))
         THEN Lower(Head(s)) \o normalize_text(Tail(s))
         ELSE normalize_text(Tail(s))

(***************************************************************************)
(* The `in` operator on str: scan the start positions left to right.       *)
(***************************************************************************)
RECURSIVE InFrom(_, _, _)
InFrom(needle, hay, i) ==
    IF i + Len(needle) - 1 > Len(hay) THEN FALSE
    ELSE IF SubSeq(hay, i, i + Len(needle) - 1) = needle THEN TRUE
         ELSE InFrom(needle, hay, i + 1)

StrIn(needle, hay) == InFrom(needle, hay, 1)

(***************************************************************************)
(* is_answer_correct: Optional[bool] as "None" / "True" / "False".         *)
(***************************************************************************)
is_answer_correct_NoNormCheck(answer, ground_truth) ==
    IF ground_truth = <<>> THEN "None"
    ELSE IF StrIn(normalize_text(ground_truth), normalize_text(answer))
         THEN "True" ELSE "False"

is_answer_correct_RawMatch(answer, ground_truth) ==
    IF ground_truth = <<>> THEN "None"
    ELSE IF normalize_text(ground_truth) = <<>> THEN "None"
         ELSE IF StrIn(ground_truth, answer) THEN "True" ELSE "False"

is_answer_correct(answer, ground_truth) ==
    IF ground_truth = <<>> THEN "None"
    ELSE LET normalized_truth == normalize_text(ground_truth)
             normalized_answer == normalize_text(answer)
         IN  IF normalized_truth = <<>> THEN "None"
             ELSE IF StrIn(normalized_truth, normalized_answer)
                  THEN "True" ELSE "False"

(***************************************************************************)
(* build_prompt.                                                           *)
(***************************************************************************)
build_prompt_NoFinalStrip(question, suffix) ==
    LET sfx == Strip(suffix)
    IN  IF sfx # <<>> /\ ~EndsWith(question, sfx)
        THEN Strip(question) \o <<" ">> \o sfx
        ELSE Strip(question)

build_prompt(question, suffix) ==
    LET sfx == Strip(suffix)
    IN  IF sfx # <<>> /\ ~EndsWith(question, sfx)
        THEN Strip(Strip(question) \o <<" ">> \o sfx)
        ELSE Strip(question)

(***************************************************************************)
(* Inputs of a run.  A QuestionSpec is a record; the question file, the    *)
(* replay fixture and the provider's answers are drawn from small pools.   *)
(* "" stands for an option that was not given (None or the empty string,   *)
(* both falsy).                                                            *)
(***************************************************************************)
QuestionSpec(p, g) == [prompt |-> p, ground_truth |-> g, rationale |-> "why"]

QuestionPool ==
    { QuestionSpec(<<"a">>, <<"4">>),
      QuestionSpec(<<"b">>, <<>>),
      QuestionSpec(<<"b", "z", " ">>, <<"?">>) }

ReplayRecord(q, z, c) ==
    [question |-> q, zero_shot_answer |-> z, cot_answer |-> c]

FixturePool ==
    { <<>>,
      << ReplayRecord(<<"a">>, <<"5">>, <<"4">>) >>,
      << ReplayRecord(<<"a">>, <<"5">>, <<"4">>),
         ReplayRecord(<<"b">>, <<"4">>, <<"5">>),
         ReplayRecord(<<"b", "z", " ">>, <<"?">>, <<"a">>) >> }

LiveAnswers == { <<"4">>, <<"5">> }

RetryWaits == {1, 3}

Truthy(x) == x # ""

RECURSIVE Pow2(_)
Pow2(n) == IF n = 0 THEN 1 ELSE 2 * Pow2(n - 1)

(***************************************************************************)
(* load_replay_data: a dict from the literal question text to the two      *)
(* recorded answers; a later record of the same question replaces an       *)
(* earlier one.                                                            *)
(***************************************************************************)
RECURSIVE load_replay_data(_)
load_replay_data(records) ==
    IF records = <<>> THEN << >>
    ELSE LET n == Len(records)
             item == records[n]
             lookup == load_replay_data(SubSeq(records, 1, n - 1))
         IN  [q \in (DOMAIN lookup) \cup {item.question} |->
                 IF q = item.question
                 THEN [zero_shot |-> item.zero_shot_answer,
                       cot |-> item.cot_answer]
                 ELSE lookup[q]]

(***************************************************************************)
(* simulate_answer.  A run of CJK text of the template is written as one   *)
(* alphanumeric token; the digits, punctuation and blanks of the template  *)
(* are single characters.                                                  *)
(***************************************************************************)
simulate_answer_NoTruth(question, mode) ==
    LET intro == <<"[", "moni-huida", "]">>
    IN  IF mode = "cot"
        THEN intro \o <<" ", "rang-women-fenxi", ":", "\n", "1", ".", " ",
                        "wenti", ":">>
                   \o question.prompt
                   \o <<"\n", "2", ".", " ", "tuili", ".", ".",
                        "suoyi-daan-shi", " ">>
                   \o question.ground_truth \o <<".">>
        ELSE intro \o <<" ">> \o question.prompt \o <<" ", "=", ">", " ">>
                   \o <<"weizhi">>

simulate_answer(question, mode) ==
    LET intro == <<"[", "moni-huida", "]">>
        truth == IF question.ground_truth # <<>>
                 THEN question.ground_truth ELSE <<"weizhi">>
    IN  IF mode = "cot"
        THEN intro \o <<" ", "rang-women-fenxi", ":", "\n", "1", ".", " ",
                        "wenti", ":">>
                   \o question.prompt
                   \o <<"\n", "2", ".", " ", "tuili", ".", ".",
                        "suoyi-daan-shi", " ">>
                   \o truth \o <<".">>
        ELSE intro \o <<" ">> \o question.prompt \o <<" ", "=", ">", " ">>
                   \o truth

(***************************************************************************)
(* State.                                                                  *)
(*   args, questions, fixture, env : the inputs of the run (the parsed     *)
(*       options, the question list, the records of the replay file, and   *)
(*       whether the credential and the client library are there)          *)
(*   pc            : the position of main / run_chat_completion            *)
(*   replay_lookup, client, run_id, results, idx, question, zero_prompt,   *)
(*   cot_prompt, zero_answer, cot_answer : the locals of main              *)
(*   mode, attempt, wait, last_error : the call in progress and the locals *)
(*       of run_chat_completion                                            *)
(*   raised        : the exception that ended the run ("" for none)        *)
(*   trace         : what the run did so far, in order                     *)
(*   disk          : the files under the output root, per run folder       *)
(*   unit          : the inputs and results of a direct call of a pure     *)
(*                   function                                              *)
(*   run_no, prior : the number of the run among the runs made on the same *)
(*                   output root, and the files as they were when the run  *)
(*                   began                                                 *)
(***************************************************************************)
VARIABLES args, questions, fixture, env, pc, replay_lookup, client, run_id,
          results, idx, question, zero_prompt, cot_prompt, zero_answer,
          cot_answer, mode, attempt, wait, last_error, raised, trace, disk,
          unit, run_no, prior

inputs == <<args, questions, fixture, env>>
locals == <<replay_lookup, client, run_id, results, idx, question,
            zero_prompt, cot_prompt, zero_answer, cot_answer>>
call == <<mode, attempt, wait, last_error>>
history == <<run_no, prior>>
vars == <<inputs, pc, locals, call, raised, trace, disk, unit, history>>

RunIds == {"t1", "now"}

NoFile == <<>>
NoFiles == [json |-> NoFile, md |-> NoFile]
NoQuestion == QuestionSpec(<<>>, <<>>)
NoUnit == [fn |-> "", a |-> <<>>, b |-> <<>>, out |-> <<>>, again |-> <<>>,
           verdict |-> ""]

Event(e, q, m, n) == [ev |-> e, q |-> q, mode |-> m, n |-> n, text |-> <<>>]

ArgsPool(retries, waits) ==
    [ replay_file : {"", "replay.json"},
      dry_run : BOOLEAN,
      save_markdown : BOOLEAN,
      tag : {"", "t1"},
      max_retries : retries,
      retry_wait : waits,
      pause : {1},
      zero_shot_suffix : {<<"z">>},
      cot_suffix : {<<"c">>},
      model : {"gpt-4o-mini"},
      output_dir : {"outputs"} ]

(***************************************************************************)
(* The options of the runs of several questions: no retry, or one retry    *)
(* with the base delay 1; a run that retries is taken with --tag t1 and    *)
(* without --save-markdown, which run_chat_completion does not read.       *)
(***************************************************************************)
RunArgs ==
    { a \in ArgsPool(-1 .. 1, {1}) :
         a.max_retries = 1 => (a.tag = "t1" /\ ~a.save_markdown) }

(***************************************************************************)
(* The options of the runs of one question: every retry ceiling up to      *)
(* MaxRetry and both base delays.                                          *)
(***************************************************************************)
RetryArgs == ArgsPool(-1 .. MaxRetry, RetryWaits)

(* The question files: up to n questions, no question twice. *)
QuestionFiles(n) ==
    { f \in SeqsUpTo(QuestionPool, n) :
         \A i, j \in 1 .. Len(f) : i # j => f[i] # f[j] }

MainLocalsInit ==
    /\ replay_lookup = << >>
    /\ client = ""
    /\ run_id = ""
    /\ results = <<>>
    /\ idx = 0
    /\ question = NoQuestion
    /\ zero_prompt = <<>>
    /\ cot_prompt = <<>>
    /\ zero_answer = <<>>
    /\ cot_answer = <<>>
    /\ mode = ""
    /\ attempt = 0
    /\ wait = 0
    /\ last_error = ""
    /\ raised = ""
    /\ trace = <<>>
    /\ disk = [r \in RunIds |-> NoFiles]
    /\ run_no = 1
    /\ prior = [r \in RunIds |-> NoFiles]

(***************************************************************************)
(* main, after parse_args and load_questions: every combination of the     *)
(* options, a question list, and a replay file when one is named.          *)
(***************************************************************************)
MainInit(pool, maxq) ==
    /\ args \in pool
    /\ questions \in QuestionFiles(maxq)
    /\ fixture \in FixturePool
    /\ ~Truthy(args.replay_file) => fixture = <<>>
    /\ env \in {"ok", "no_key", "no_sdk"}
    /\ pc = "load_replay"
    /\ MainLocalsInit
    /\ unit = NoUnit

Init == MainInit(RunArgs, MaxQuestions)

(***************************************************************************)
(* The runs of at most one question, with every retry ceiling up to        *)
(* MaxRetry.                                                               *)
(***************************************************************************)
InitRetry == MainInit(RetryArgs, 1)

Raise_Swallowed(exc) ==
    /\ pc' = "loop"
    /\ raised' = exc

Raise(exc) ==
    /\ pc' = "aborted"
    /\ raised' = exc

(***************************************************************************)
(* main, line 287.                                                         *)
(***************************************************************************)
LoadReplay ==
    /\ pc = "load_replay"
    /\ replay_lookup' = IF Truthy(args.replay_file)
                        THEN load_replay_data(fixture) ELSE << >>
    /\ pc' = "build_client"
    /\ UNCHANGED <<history, inputs, client, run_id, results, idx, question,
                   zero_prompt, cot_prompt, zero_answer, cot_answer, call,
                   raised, trace, disk, unit>>

(***************************************************************************)
(* main, lines 288-292, with build_client.                                 *)
(***************************************************************************)
NeedsClient_Inverted(a, lookup) == ~a.dry_run /\ DOMAIN lookup # {}

NeedsClient(a, lookup) == ~a.dry_run /\ DOMAIN lookup = {}

BuildClient ==
    /\ pc = "build_client"
    /\ IF NeedsClient(args, replay_lookup)
       THEN /\ trace' = Append(trace, Event("build_client", 0, "", 0))
            /\ IF env = "no_key"
               THEN Raise("EnvironmentError") /\ UNCHANGED <<client, run_id>>
               ELSE IF env = "no_sdk"
               THEN Raise("RuntimeError") /\ UNCHANGED <<client, run_id>>
               ELSE /\ client' = "OpenAI"
                    /\ run_id' = IF Truthy(args.tag) THEN args.tag ELSE "now"
                    /\ pc' = "loop"
                    /\ UNCHANGED raised
       ELSE /\ run_id' = IF Truthy(args.tag) THEN args.tag ELSE "now"
            /\ pc' = "loop"
            /\ UNCHANGED <<client, raised, trace>>
    /\ UNCHANGED <<history, inputs, replay_lookup, results, idx, question,
                   zero_prompt, cot_prompt, zero_answer, cot_answer, call,
                   disk, unit>>

(***************************************************************************)
(* main, lines 293-296: the next question of the loop and its two prompts. *)
(***************************************************************************)
BeginQuestion ==
    /\ pc = "loop"
    /\ idx < Len(questions)
    /\ idx' = idx + 1
    /\ question' = questions[idx + 1]
    /\ zero_prompt' = build_prompt(questions[idx + 1].prompt,
                                   args.zero_shot_suffix)
    /\ cot_prompt' = build_prompt(questions[idx + 1].prompt, args.cot_suffix)
    /\ pc' = "answer"
    /\ UNCHANGED <<history, inputs, replay_lookup, client, run_id, results,
                   zero_answer, cot_answer, call, raised, trace, disk, unit>>

(***************************************************************************)
(* main, lines 298-303: the answers come from the replay lookup.           *)
(***************************************************************************)
UseReplay(a, lookup) == DOMAIN lookup # {}

ReplayAnswers ==
    /\ pc = "answer"
    /\ UseReplay(args, replay_lookup)
    /\ IF question.prompt \in DOMAIN replay_lookup
       THEN /\ zero_answer' = replay_lookup[question.prompt].zero_shot
            /\ cot_answer' = replay_lookup[question.prompt].cot
            /\ trace' = trace \o <<Event("replay", idx, "zero", 0),
                                   Event("replay", idx, "cot", 0)>>
            /\ pc' = "score"
            /\ UNCHANGED raised
       ELSE /\ Raise("KeyError")
            /\ UNCHANGED <<zero_answer, cot_answer, trace>>
    /\ UNCHANGED <<history, inputs, replay_lookup, client, run_id, results, idx,
                   question, zero_prompt, cot_prompt, call, disk, unit>>

(***************************************************************************)
(* main, lines 304-306: the answers come from simulate_answer.             *)
(***************************************************************************)
SimulateAnswers ==
    /\ pc = "answer"
    /\ ~UseReplay(args, replay_lookup)
    /\ args.dry_run
    /\ zero_answer' = simulate_answer(question, "zero")
    /\ cot_answer' = simulate_answer(question, "cot")
    /\ trace' = trace \o <<Event("simulate", idx, "zero", 0),
                           Event("simulate", idx, "cot", 0)>>
    /\ pc' = "score"
    /\ UNCHANGED <<history, inputs, replay_lookup, client, run_id, results, idx,
                   question, zero_prompt, cot_prompt, call, raised, disk,
                   unit>>

(***************************************************************************)
(* run_chat_completion, lines 168-171: the locals at entry.                *)
(***************************************************************************)
EnterCall(m) ==
    /\ mode' = m
    /\ attempt' = 0
    /\ wait' = args.retry_wait
    /\ last_error' = ""
    /\ pc' = "rcc_loop"

(***************************************************************************)
(* main, lines 307-315: the zero-shot answer is asked of the provider.     *)
(***************************************************************************)
LiveZeroShot_CotFirst ==
    /\ pc = "answer"
    /\ ~UseReplay(args, replay_lookup)
    /\ ~args.dry_run
    /\ EnterCall("cot")
    /\ UNCHANGED <<history, inputs, locals, raised, trace, disk, unit>>

LiveZeroShot ==
    /\ pc = "answer"
    /\ ~UseReplay(args, replay_lookup)
    /\ ~args.dry_run
    /\ EnterCall("zero")
    /\ UNCHANGED <<history, inputs, locals, raised, trace, disk, unit>>

(***************************************************************************)
(* run_chat_completion, line 171 when the loop is not entered or is left.  *)
(***************************************************************************)
LoopGuard(a, m) == a <= m

LoopExit ==
    /\ pc = "rcc_loop"
    /\ ~LoopGuard(attempt, args.max_retries)
    /\ pc' = "rcc_raise"
    /\ UNCHANGED <<history, inputs, locals, call, raised, trace, disk, unit>>

(***************************************************************************)
(* run_chat_completion, lines 172-178: the provider answers; the answer is *)
(* returned to main, line 308 or 317.                                      *)
(***************************************************************************)
CallSucceeds ==
    /\ pc = "rcc_loop"
    /\ LoopGuard(attempt, args.max_retries)
    /\ \E answer \in LiveAnswers :
          /\ trace' = Append(trace, [Event("call_ok", idx, mode, attempt)
                                        EXCEPT !.text = answer])
          /\ IF mode = "zero"
             THEN /\ zero_answer' = answer
                  /\ pc' = "pause_mid"
                  /\ UNCHANGED cot_answer
             ELSE /\ cot_answer' = answer
                  /\ pc' = "score"
                  /\ UNCHANGED zero_answer
    /\ UNCHANGED <<history, inputs, replay_lookup, client, run_id, results, idx,
                   question, zero_prompt, cot_prompt, call, raised, disk,
                   unit>>

(***************************************************************************)
(* run_chat_completion, lines 179-183: the provider call raises.           *)
(***************************************************************************)
IsLastAttempt_Early(a, m) == a + 1 >= m

IsLastAttempt_Late(a, m) == a = m + 1

IsLastAttempt(a, m) == a = m

CallFails ==
    /\ pc = "rcc_loop"
    /\ LoopGuard(attempt, args.max_retries)
    /\ last_error' = "exc"
    /\ trace' = Append(trace, Event("call_fail", idx, mode, attempt))
    /\ pc' = IF IsLastAttempt(attempt, args.max_retries)
             THEN "rcc_raise" ELSE "rcc_sleep"
    /\ UNCHANGED <<history, inputs, locals, mode, attempt, wait, raised, disk, unit>>

(***************************************************************************)
(* run_chat_completion, lines 183-190: the backoff before the next attempt.*)
(***************************************************************************)
BackoffDelay_Fixed(w, a) == w

BackoffDelay(w, a) == w * Pow2(a)

BackoffSleep ==
    /\ pc = "rcc_sleep"
    /\ trace' = Append(trace, Event("backoff", idx, mode,
                                    BackoffDelay(wait, attempt)))
    /\ attempt' = attempt + 1
    /\ pc' = "rcc_loop"
    /\ UNCHANGED <<history, inputs, locals, mode, wait, last_error, raised, disk,
                   unit>>

(***************************************************************************)
(* run_chat_completion, line 191: the terminal failure, which main does    *)
(* not catch.                                                              *)
(***************************************************************************)
RaiseTerminal_ReturnsError ==
    /\ pc = "rcc_raise"
    /\ IF mode = "zero"
       THEN /\ zero_answer' = <<"error">>
            /\ pc' = "pause_mid"
            /\ UNCHANGED cot_answer
       ELSE /\ cot_answer' = <<"error">>
            /\ pc' = "score"
            /\ UNCHANGED zero_answer
    /\ UNCHANGED <<history, inputs, replay_lookup, client, run_id, results,
                   idx, question, zero_prompt, cot_prompt, call, raised,
                   trace, disk, unit>>

RaiseTerminal ==
    /\ pc = "rcc_raise"
    /\ Raise("RuntimeError")
    /\ UNCHANGED <<history, inputs, locals, call, trace, disk, unit>>

(***************************************************************************)
(* main, lines 316-324: the pause between the two calls, then the CoT      *)
(* answer is asked of the provider.                                        *)
(***************************************************************************)
PauseThenCot ==
    /\ pc = "pause_mid"
    /\ trace' = Append(trace, Event("pause", idx, "mid", args.pause))
    /\ EnterCall("cot")
    /\ UNCHANGED <<history, inputs, locals, raised, disk, unit>>

(***************************************************************************)
(* main, lines 325-340: the zero-shot answer is scored, then the CoT       *)
(* answer, and the entry is appended.                                      *)
(***************************************************************************)
ResultEntry ==
    [ question |-> question.prompt,
      rationale |-> question.rationale,
      ground_truth |-> question.ground_truth,
      zero_shot_prompt |-> zero_prompt,
      cot_prompt |-> cot_prompt,
      zero_shot_answer |-> zero_answer,
      cot_answer |-> cot_answer,
      zero_shot_correct |-> is_answer_correct(zero_answer,
                                              question.ground_truth),
      cot_correct |-> is_answer_correct(cot_answer, question.ground_truth) ]

ScoreAndAppend ==
    /\ pc = "score"
    /\ results' = Append(results, ResultEntry)
    /\ trace' = trace \o <<Event("score", idx, "zero", 0),
                           Event("score", idx, "cot", 0),
                           Event("append", idx, "", 0)>>
    /\ pc' = "pause_end"
    /\ UNCHANGED <<history, inputs, replay_lookup, client, run_id, idx, question,
                   zero_prompt, cot_prompt, zero_answer, cot_answer, call,
                   raised, disk, unit>>

(***************************************************************************)
(* main, line 341: the pause after the pair.                               *)
(***************************************************************************)
PauseAfter ==
    /\ pc = "pause_end"
    /\ trace' = Append(trace, Event("pause", idx, "end", args.pause))
    /\ pc' = "loop"
    /\ UNCHANGED <<history, inputs, locals, call, raised, disk, unit>>

(***************************************************************************)
(* main, lines 343-353: the metadata of the run.                           *)
(***************************************************************************)
Metadata ==
    LET base == [ run_id |-> run_id,
                  model |-> args.model,
                  cot_suffix |-> args.cot_suffix,
                  zero_shot_suffix |-> args.zero_shot_suffix,
                  question_count |-> Len(questions) ]
    IN  IF Truthy(args.replay_file)
        THEN [k \in DOMAIN base \cup {"replay_file"} |->
                 IF k = "replay_file" THEN args.replay_file ELSE base[k]]
        ELSE base

(***************************************************************************)
(* save_results: results.json of the run folder is written, and results.md *)
(* when save_markdown is set; the other files stay as they are.            *)
(***************************************************************************)
save_results_Merge(files, recs, metadata, save_markdown) ==
    LET folder == files[metadata.run_id]
        earlier == IF folder.json = NoFile THEN <<>>
                   ELSE folder.json[1].records
        payload == [metadata |-> metadata, records |-> earlier \o recs]
    IN  [files EXCEPT ![metadata.run_id] =
            [json |-> <<payload>>,
             md |-> IF save_markdown THEN <<payload>> ELSE folder.md]]

save_results_Wipe(files, recs, metadata, save_markdown) ==
    LET payload == [metadata |-> metadata, records |-> recs]
    IN  [r \in DOMAIN files |->
            IF r = metadata.run_id
            THEN [json |-> <<payload>>,
                  md |-> IF save_markdown THEN <<payload>> ELSE NoFile]
            ELSE NoFiles]

save_results(files, recs, metadata, save_markdown) ==
    LET payload == [metadata |-> metadata, records |-> recs]
        folder == files[metadata.run_id]
    IN  [files EXCEPT ![metadata.run_id] =
            [json |-> <<payload>>,
             md |-> IF save_markdown THEN <<payload>> ELSE folder.md]]

(***************************************************************************)
(* main, lines 343-360, once the loop has run out of questions.            *)
(***************************************************************************)
SaveResults_InLoop ==
    /\ pc = "loop"
    /\ disk' = save_results(disk, results, Metadata, args.save_markdown)
    /\ trace' = Append(trace, Event("save", 0, "", 0))
    /\ pc' = "done"
    /\ UNCHANGED <<history, inputs, locals, call, raised, unit>>

SaveResults ==
    /\ pc = "loop"
    /\ idx = Len(questions)
    /\ disk' = save_results(disk, results, Metadata, args.save_markdown)
    /\ trace' = Append(trace, Event("save", 0, "", 0))
    /\ pc' = "done"
    /\ UNCHANGED <<history, inputs, locals, call, raised, unit>>

Next ==
    \/ LoadReplay
    \/ BuildClient
    \/ BeginQuestion
    \/ ReplayAnswers
    \/ SimulateAnswers
    \/ LiveZeroShot
    \/ LoopExit
    \/ CallSucceeds
    \/ CallFails
    \/ BackoffSleep
    \/ RaiseTerminal
    \/ PauseThenCot
    \/ ScoreAndAppend
    \/ PauseAfter
    \/ SaveResults

Spec == Init /\ [][Next]_vars

SpecRetry == InitRetry /\ [][Next]_vars

(***************************************************************************)
(* The same runs when the program keeps running: main and                  *)
(* run_chat_completion are one sequential thread, the provider call of     *)
(* lines 172-177 returns or raises, and the time.sleep of line 189 ends.   *)
(***************************************************************************)
SpecRetryFair == SpecRetry /\ WF_vars(Next)

(***************************************************************************)
(* Several runs of main, one after the other, on the same output root.     *)
(* The options, questions, replay file and environment of each run are     *)
(* drawn anew; the files of the earlier runs stay on disk.  Two runs       *)
(* without --tag that start within the same second get the same now_stamp  *)
(* ("now").  Each run has one question; the live runs are untagged and     *)
(* export no markdown, the replay files have records.                      *)
(***************************************************************************)
LiveRun(a) == ~a.dry_run /\ ~Truthy(a.replay_file)

RunsArgs ==
    { a \in ArgsPool({-1, 1}, {1}) :
         /\ LiveRun(a) => (a.tag = "" /\ ~a.save_markdown)
         /\ ~LiveRun(a) => a.max_retries = 1
         /\ Truthy(a.replay_file) => ~a.dry_run }

RunsQuestions == { <<q>> : q \in {x \in QuestionPool : Len(x.prompt) = 1} }

RunsInput(a, q, f, e) ==
    /\ a \in RunsArgs
    /\ q \in RunsQuestions
    /\ f \in FixturePool
    /\ IF Truthy(a.replay_file) THEN f # <<>> ELSE f = <<>>
    /\ e \in {"ok", "no_key"}
    /\ e = "no_key" => LiveRun(a)

InitRuns ==
    /\ RunsInput(args, questions, fixture, env)
    /\ pc = "load_replay"
    /\ MainLocalsInit
    /\ unit = NoUnit

StartRun ==
    /\ pc \in {"done", "aborted"}
    /\ run_no < MaxRuns
    /\ run_no' = run_no + 1
    /\ prior' = disk
    /\ RunsInput(args', questions', fixture', env')
    /\ pc' = "load_replay"
    /\ replay_lookup' = << >>
    /\ client' = ""
    /\ run_id' = ""
    /\ results' = <<>>
    /\ idx' = 0
    /\ question' = NoQuestion
    /\ zero_prompt' = <<>>
    /\ cot_prompt' = <<>>
    /\ zero_answer' = <<>>
    /\ cot_answer' = <<>>
    /\ mode' = ""
    /\ attempt' = 0
    /\ wait' = 0
    /\ last_error' = ""
    /\ raised' = ""
    /\ trace' = <<>>
    /\ UNCHANGED <<disk, unit>>

NextRuns == Next \/ StartRun

SpecRuns == InitRuns /\ [][NextRuns]_vars

(***************************************************************************)
(* Direct calls of the pure functions, on every text of at most MaxLen     *)
(* characters.  The main program stands still (pc is "unit" .. "unit_end").*)
(***************************************************************************)
PromptChars == {" ", "a", "b"}
ScoreChars == {"a", "A", "?", "I."}

IdleArgs ==
    [ replay_file |-> "", dry_run |-> TRUE, save_markdown |-> FALSE,
      tag |-> "", max_retries |-> 0, retry_wait |-> 1, pause |-> 1,
      zero_shot_suffix |-> <<"z">>, cot_suffix |-> <<"c">>,
      model |-> "gpt-4o-mini", output_dir |-> "outputs" ]

UnitInit(fn, chars) ==
    /\ args = IdleArgs
    /\ questions = <<>>
    /\ fixture = <<>>
    /\ env = "ok"
    /\ pc = "unit"
    /\ MainLocalsInit
    /\ unit \in [ fn : {fn},
                  a : SeqsUpTo(chars, MaxLen),
                  b : SeqsUpTo(chars, MaxLen),
                  out : {<<>>}, again : {<<>>}, verdict : {""} ]

UnitFrame == UNCHANGED <<history, inputs, locals, call, raised, trace, disk>>

(***************************************************************************)
(* build_prompt(question, suffix), and build_prompt of its result.         *)
(***************************************************************************)
InitPrompt == UnitInit("build_prompt", PromptChars)

CallBuildPrompt ==
    /\ pc = "unit"
    /\ unit.fn = "build_prompt"
    /\ unit' = [unit EXCEPT !.out = build_prompt(unit.a, unit.b)]
    /\ pc' = "unit_once"
    /\ UnitFrame

CallBuildPromptAgain ==
    /\ pc = "unit_once"
    /\ unit.fn = "build_prompt"
    /\ unit' = [unit EXCEPT !.again = build_prompt(unit.out, unit.b)]
    /\ pc' = "unit_end"
    /\ UnitFrame

NextPrompt == CallBuildPrompt \/ CallBuildPromptAgain

SpecPrompt == InitPrompt /\ [][NextPrompt]_vars

(***************************************************************************)
(* is_answer_correct(answer, ground_truth).                                *)
(***************************************************************************)
InitScore == UnitInit("is_answer_correct", ScoreChars)

CallIsAnswerCorrect ==
    /\ pc = "unit"
    /\ unit.fn = "is_answer_correct"
    /\ unit' = [unit EXCEPT !.verdict = is_answer_correct(unit.a, unit.b)]
    /\ pc' = "unit_end"
    /\ UnitFrame

NextScore == CallIsAnswerCorrect

SpecScore == InitScore /\ [][NextScore]_vars

(***************************************************************************)
(* normalize_text(s), and normalize_text of its result.                    *)
(***************************************************************************)
InitNormalize ==
    /\ UnitInit("normalize_text", ScoreChars)
    /\ unit.b = <<>>

CallNormalize ==
    /\ pc = "unit"
    /\ unit.fn = "normalize_text"
    /\ unit' = [unit EXCEPT !.out = normalize_text(unit.a)]
    /\ pc' = "unit_once"
    /\ UnitFrame

CallNormalizeAgain ==
    /\ pc = "unit_once"
    /\ unit.fn = "normalize_text"
    /\ unit' = [unit EXCEPT !.again = normalize_text(unit.out)]
    /\ pc' = "unit_end"
    /\ UnitFrame

NextNormalize == CallNormalize \/ CallNormalizeAgain

SpecNormalize == InitNormalize /\ [][NextNormalize]_vars

(***************************************************************************)
(* Properties.                                                             *)
(***************************************************************************)
IsPrefix(s, t) == Len(s) <= Len(t) /\ SubSeq(t, 1, Len(s)) = s

EventsOf(kinds) == SelectSeq(trace, LAMBDA e : e.ev \in kinds)

(* The provider calls and backoff waits of the call for question q, mode m *)
CallEvents(q, m) ==
    SelectSeq(trace, LAMBDA e : /\ e.q = q
                                /\ e.mode = m
                                /\ e.ev \in {"call_ok", "call_fail",
                                             "backoff"})

InCall == pc \in {"rcc_loop", "rcc_sleep", "rcc_raise"}

(* the run ended with the terminal failure of run_chat_completion *)
TerminalFailure ==
    pc = "aborted" /\ raised = "RuntimeError" /\ client = "OpenAI"

(* n+1 failed attempts with the waits w*2^0 .. w*2^(n-1) between them *)
FailSchedule(n, w, q, m) ==
    [i \in 1 .. (2 * n + 1) |->
        IF i % 2 = 1
        THEN Event("call_fail", q, m, (i - 1) \div 2)
        ELSE Event("backoff", q, m, w * 2 ^ ((i - 2) \div 2))]

(* k failed attempts, each followed by its wait, then the success k *)
SuccessSchedule(k, w, q, m, answer) ==
    [i \in 1 .. (2 * k + 1) |->
        IF i = 2 * k + 1
        THEN [Event("call_ok", q, m, k) EXCEPT !.text = answer]
        ELSE FailSchedule(k, w, q, m)[i]]

(* C1: with max_retries = N >= 0 and retry_wait = w, as long as every      *)
(* provider call of a run_chat_completion has failed, its calls and waits  *)
(* are a prefix of: attempt 0, wait w*2^0, attempt 1, wait w*2^1, ...,     *)
(* wait w*2^(N-1), attempt N; the terminal failure is raised exactly when  *)
(* that schedule is complete (N+1 attempts, N waits, none after the last). *)
C1_AllFailSchedule ==
    LET ev == CallEvents(idx, mode)
        schedule == FailSchedule(args.max_retries, args.retry_wait, idx, mode)
    IN  ( /\ args.max_retries >= 0
          /\ InCall \/ TerminalFailure
          /\ \A i \in 1 .. Len(ev) : ev[i].ev # "call_ok" )
        => /\ IsPrefix(ev, schedule)
           /\ (ev = schedule) <=> (pc = "rcc_raise" \/ TerminalFailure)

C1_Witness ==
    /\ TerminalFailure
    /\ args.max_retries = 2
    /\ args.retry_wait = 1
    /\ Len(EventsOf({"call_fail"})) = 3
    /\ EventsOf({"backoff"}) = << Event("backoff", 1, "zero", 1),
                                  Event("backoff", 1, "zero", 2) >>

(* C2: a run_chat_completion whose first successful attempt is attempt k   *)
(* made exactly the k failed calls and k waits before it and nothing after *)
(* it, k <= max_retries, and its caller holds that attempt's answer; the   *)
(* terminal failure is raised only after the failure of attempt            *)
(* max_retries.                                                            *)
C2_FirstSuccessReturns ==
    /\ \A q \in 1 .. idx : \A m \in {"zero", "cot"} :
          LET ev == CallEvents(q, m)
          IN  \A i \in 1 .. Len(ev) :
                 ev[i].ev = "call_ok" =>
                    /\ ev[i].n <= args.max_retries
                    /\ ev = SuccessSchedule(ev[i].n, args.retry_wait, q, m,
                                            ev[i].text)
                    /\ q = idx =>
                          IF m = "zero" THEN zero_answer = ev[i].text
                                        ELSE cot_answer = ev[i].text
                    /\ q <= Len(results) =>
                          IF m = "zero"
                          THEN results[q].zero_shot_answer = ev[i].text
                          ELSE results[q].cot_answer = ev[i].text
    /\ (TerminalFailure /\ args.max_retries >= 0) =>
          /\ trace[Len(trace)].ev = "call_fail"
          /\ trace[Len(trace)].n = args.max_retries

C2_Witness ==
    /\ pc = "done"
    /\ \E i \in 1 .. Len(trace) :
          /\ trace[i].ev = "call_ok"
          /\ trace[i].n = 1
          /\ args.max_retries = 2

Kinds == {trace[i].ev : i \in 1 .. Len(trace)}

(* C3: when a replay file is given, whatever it holds and whatever dry_run *)
(* is, only the replay lookup answers and build_client is never called;    *)
(* otherwise with dry_run only simulate_answer answers; otherwise only the *)
(* live provider does.                                                     *)
C3_ProviderPrecedence ==
    LET used == Kinds \cap {"build_client", "replay", "simulate", "call_ok",
                            "call_fail"}
    IN  IF Truthy(args.replay_file)
        THEN used \subseteq {"replay"} /\ client = ""
        ELSE IF args.dry_run
             THEN used \subseteq {"simulate"} /\ client = ""
             ELSE used \subseteq {"build_client", "call_ok", "call_fail"}

(* C4: in a run with a replay file, once the loop is past the lookup of a  *)
(* question whose prompt is not a question of the file, the run has failed *)
(* with the KeyError and neither simulate_answer nor the provider was used *)
(* for that question.                                                      *)
C4_MissingReplayQuestion ==
    ( /\ Truthy(args.replay_file)
      /\ idx >= 1
      /\ pc # "answer"
      /\ question.prompt \notin {fixture[i].question : i \in 1 .. Len(fixture)} )
    => /\ pc = "aborted"
       /\ raised = "KeyError"
       /\ \A i \in 1 .. Len(trace) :
             trace[i].q = idx =>
                trace[i].ev \notin {"simulate", "call_ok", "call_fail"}

(* C5: a run that raised (the missing credential or client library, a      *)
(* question missing from the replay lookup, the terminal failure of a      *)
(* provider call) has stopped, never called save_results and left no file  *)
(* in any run folder, also when entries had been appended before.          *)
C5_NoSaveOnAbort ==
    (raised # "" \/ pc = "aborted") =>
        /\ pc = "aborted"
        /\ raised \in {"EnvironmentError", "RuntimeError", "KeyError"}
        /\ "save" \notin Kinds
        /\ \A r \in RunIds : disk[r] = NoFiles

C5_Witness ==
    /\ pc = "aborted"
    /\ Len(results) >= 1
    /\ raised \in {"RuntimeError", "KeyError"}

(* C6: save_results is called once in a run that completes and never in    *)
(* any other state; it is the last thing the run does, and results.json of *)
(* the run folder then holds one record per question, record i being the   *)
(* one of question i, with question_count the number of records.           *)
C6_SavedOncePerQuestionInOrder ==
    /\ Len(EventsOf({"save"})) = IF pc = "done" THEN 1 ELSE 0
    /\ pc = "done" =>
          /\ raised = ""
          /\ trace[Len(trace)].ev = "save"
          /\ Len(disk[run_id].json) = 1
          /\ LET payload == disk[run_id].json[1]
             IN  /\ Len(payload.records) = Len(questions)
                 /\ payload.metadata.question_count = Len(payload.records)
                 /\ \A i \in 1 .. Len(questions) :
                       /\ payload.records[i].question = questions[i].prompt
                       /\ payload.records[i].ground_truth
                             = questions[i].ground_truth
          /\ EventsOf({"append"})
                = [i \in 1 .. Len(questions) |-> Event("append", i, "", 0)]

C6_Witness ==
    /\ pc = "done"
    /\ Len(questions) = 2
    /\ questions[1].prompt # questions[2].prompt
    /\ Len(disk[run_id].json[1].records) = 2

(* C7, as claimed: the verdicts of an entry are None exactly when the      *)
(* ground truth of the question is the empty text.                         *)
C7_UnknownIffEmptyTruth ==
    \A i \in 1 .. Len(results) :
       /\ (results[i].zero_shot_correct = "None")
             <=> (results[i].ground_truth = <<>>)
       /\ (results[i].cot_correct = "None")
             <=> (results[i].ground_truth = <<>>)

(* C7, amended: the verdicts of an entry are None exactly when the ground  *)
(* truth of the question has no alphanumeric character (the empty text     *)
(* included); every other ground truth yields True or False.               *)
C7_UnknownIffNoAlnumTruth ==
    \A i \in 1 .. Len(results) :
       LET truth == results[i].ground_truth
           unscored == \A j \in 1 .. Len(truth) : ~IsAlnum(truth[j])
       IN  /\ (results[i].zero_shot_correct = "None") <=> unscored
           /\ (results[i].cot_correct = "None") <=> unscored
           /\ ~unscored =>
                 /\ results[i].zero_shot_correct \in {"True", "False"}
                 /\ results[i].cot_correct \in {"True", "False"}

C7_Witness ==
    /\ Len(results) = 2
    /\ results[1].ground_truth = <<"?">>
    /\ results[1].zero_shot_correct = "None"
    /\ results[2].ground_truth = <<"4">>
    /\ results[2].cot_correct \in {"True", "False"}

(* C8: is_answer_correct(answer, ground_truth) is None when ground_truth   *)
(* is empty or normalizes to the empty text, and otherwise True when the   *)
(* normalized ground truth is a contiguous part of the normalized answer   *)
(* and False when it is not.                                               *)
C8_ScoreIsNormalizedSubstring ==
    pc = "unit_end" =>
       LET truth == normalize_text(unit.b)
           answer == normalize_text(unit.a)
           occurs == \E i \in 0 .. Len(answer) :
                        \E j \in i .. Len(answer) :
                           SubSeq(answer, i + 1, j) = truth
       IN  unit.verdict =
              IF unit.b = <<>> \/ truth = <<>> THEN "None"
              ELSE IF occurs THEN "True" ELSE "False"

C8_Witness ==
    /\ pc = "unit_end"
    /\ unit.a = <<"?", "A", "a">>
    /\ unit.b = <<"a", "?", "A">>
    /\ unit.verdict = "True"

(* C9: build_prompt of the result of build_prompt, with the same suffix,   *)
(* is that result.                                                         *)
C9_BuildPromptIdempotent ==
    pc = "unit_end" => unit.again = unit.out

C9_Witness ==
    /\ pc = "unit_end"
    /\ unit.a = <<" ", "a", " ">>
    /\ unit.b = <<"b", " ">>
    /\ unit.out = <<"a", " ", "b">>
    /\ unit.again = <<"a", " ", "b">>

(* C10: build_prompt returns the trimmed question followed by " " and the  *)
(* trimmed suffix when the trimmed suffix is not empty and the trimmed     *)
(* question does not end with it, and the trimmed question in every other  *)
(* case, so that no second copy of the suffix is appended.                 *)
C10_SuffixAppendedOnce ==
    pc \in {"unit_once", "unit_end"} =>
       LET q == Strip(unit.a)
           sfx == Strip(unit.b)
       IN  unit.out = IF sfx # <<>> /\ ~EndsWith(q, sfx)
                      THEN Strip(q \o <<" ">> \o sfx)
                      ELSE q

(* C11: normalize_text of the result of normalize_text is that result.     *)
C11_NormalizeIdempotent ==
    pc = "unit_end" => unit.again = unit.out

(* the answers of question q came from simulate_answer *)
Simulated(q) ==
    \E i \in 1 .. Len(trace) : trace[i].ev = "simulate" /\ trace[i].q = q

(* C12: in a run answered by simulate_answer, every entry of a question    *)
(* whose ground truth normalizes to a non-empty text has both verdicts     *)
(* True; when the run completes with --tag given, results.json of the      *)
(* folder of that tag holds the entries of the run, one per question.      *)
C12_SimulatedAnswersAreCorrect ==
    /\ \A i \in 1 .. Len(results) :
          (Simulated(i) /\ normalize_text(results[i].ground_truth) # <<>>) =>
             /\ results[i].zero_shot_correct = "True"
             /\ results[i].cot_correct = "True"
    /\ (pc = "done" /\ "simulate" \in Kinds /\ Truthy(args.tag)) =>
          /\ disk[args.tag].json # NoFile
          /\ disk[args.tag].json[1].records = results
          /\ Len(results) = Len(questions)
          /\ disk[args.tag].json[1].metadata.run_id = args.tag

C12_Witness ==
    /\ pc = "done"
    /\ args.dry_run
    /\ args.tag = "t1"
    /\ Len(questions) = 1
    /\ Simulated(1)
    /\ questions[1].ground_truth = <<"4">>
    /\ Len(disk["t1"].json[1].records) = 1
    /\ disk["t1"].json[1].records[1].zero_shot_correct = "True"
    /\ disk["t1"].json[1].records[1].cot_correct = "True"

(* the positions of the trace where an answer is asked of a provider, and  *)
(* those where an answer is scored                                         *)
IsRequest(e) == e.ev \in {"replay", "simulate", "call_ok", "call_fail"}

Requests == {i \in 1 .. Len(trace) : IsRequest(trace[i])}

Scores == {i \in 1 .. Len(trace) : trace[i].ev = "score"}

ModeRank(m) == IF m = "zero" THEN 0 ELSE 1

(* C13: the requests of a run are in question order and, for one question, *)
(* zero-shot before CoT; so are the scorings; a CoT request of a question  *)
(* comes only after a zero-shot request of that question that succeeded;   *)
(* and an answer is scored only after both answers of its question were    *)
(* obtained.                                                               *)
C13_ZeroShotBeforeCotInQuestionOrder ==
    LET reqs == SelectSeq(trace, IsRequest)
        scores == EventsOf({"score"})
        Rank(e) == 2 * e.q + ModeRank(e.mode)
        n == Len(trace)
    IN  /\ \A k \in 1 .. Len(reqs) - 1 : Rank(reqs[k]) <= Rank(reqs[k + 1])
        /\ \A k \in 1 .. Len(scores) - 1 : Rank(scores[k]) < Rank(scores[k + 1])
        /\ \A j \in 1 .. n :
              /\ (IsRequest(trace[j]) /\ trace[j].mode = "cot") =>
                    \E i \in 1 .. j - 1 :
                       /\ trace[i].q = trace[j].q
                       /\ trace[i].mode = "zero"
                       /\ trace[i].ev \in {"replay", "simulate", "call_ok"}
              /\ trace[j].ev = "score" =>
                    \A i \in j + 1 .. n :
                       IsRequest(trace[i]) => trace[i].q # trace[j].q
              /\ IsRequest(trace[j]) => (1 <= trace[j].q /\ trace[j].q <= idx)

C13_Witness ==
    /\ pc = "done"
    /\ Len(questions) = 2
    /\ \E i, j, k \in Requests :
          /\ i < j /\ j < k
          /\ trace[i] = Event("call_fail", 1, "zero", 0)
          /\ trace[j].ev = "call_ok" /\ trace[j].q = 1 /\ trace[j].mode = "cot"
          /\ trace[k].ev = "call_ok" /\ trace[k].q = 2 /\ trace[k].mode = "zero"

(* C14: when neither dry_run nor a non-empty replay lookup keeps main from *)
(* the live provider and the credential or the client library is missing,  *)
(* the run fails in build_client, before the loop: no prompt was built, no *)
(* answer was asked for, no entry was appended and no file was written.    *)
C14_MissingCredentialFailsBeforeLoop ==
    ( /\ env # "ok"
      /\ ~args.dry_run
      /\ DOMAIN load_replay_data(fixture) = {}
      /\ pc \notin {"load_replay", "build_client"} )
    => /\ pc = "aborted"
       /\ raised = IF env = "no_key" THEN "EnvironmentError"
                                     ELSE "RuntimeError"
       /\ client = ""
       /\ idx = 0
       /\ zero_prompt = <<>> /\ cot_prompt = <<>>
       /\ results = <<>>
       /\ Kinds = {"build_client"}
       /\ \A r \in RunIds : disk[r] = NoFiles

C14_Witness ==
    /\ pc = "aborted"
    /\ env = "no_key"
    /\ raised = "EnvironmentError"
    /\ ~Truthy(args.replay_file)
    /\ Len(questions) = 2

(* C15: when a run completes, results.json of its run folder holds the     *)
(* metadata and the entries of that run and nothing else, also when an     *)
(* earlier run with the same run id had written other entries there.       *)
C15_LaterRunOverwrites ==
    pc = "done" =>
       disk[run_id].json = << [metadata |-> Metadata, records |-> results] >>

C15_Witness ==
    /\ pc = "done"
    /\ run_no = 2
    /\ run_id = "t1"
    /\ prior["t1"].json # NoFile
    /\ prior["t1"].json[1].records # results
    /\ disk["t1"].json[1].records = results

(* C19: at every point of a run, the files of every run folder other than  *)
(* the one of the run are as they were when the run began.                 *)
C19_OtherRunFoldersUntouched ==
    \A r \in RunIds : r # run_id => disk[r] = prior[r]

C19_Witness ==
    /\ pc = "done"
    /\ run_no = 2
    /\ run_id = "t1"
    /\ prior["now"].json # NoFile
    /\ disk["now"] = prior["now"]
    /\ disk["t1"] # prior["t1"]

Pauses == {i \in 1 .. Len(trace) : trace[i].ev = "pause"}

(* C16: a pause is taken only for a question that the live provider        *)
(* answered; a completed live run has taken, for each question, one pause  *)
(* between the two calls and one after them.                               *)
C16_PacingOnlyInLiveRuns ==
    /\ \A i \in Pauses :
          \E j \in 1 .. i :
             /\ trace[j].ev = "call_ok"
             /\ trace[j].q = trace[i].q
    /\ (pc = "done" /\ client = "OpenAI") =>
          \A q \in 1 .. Len(questions) :
             /\ Cardinality({i \in Pauses : trace[i].q = q
                                            /\ trace[i].mode = "mid"}) = 1
             /\ Cardinality({i \in Pauses : trace[i].q = q
                                            /\ trace[i].mode = "end"}) = 1

(* run_chat_completion has run out of attempts, or has raised for it *)
AtTerminalFailure == pc = "rcc_raise" \/ TerminalFailure

(* C17: once run_chat_completion has run out of attempts for a question    *)
(* and mode, its failure ends the run: no entry was or is appended for     *)
(* that question, no answer was or is asked for a later question, nor for  *)
(* the CoT mode of that question when the zero-shot call failed, nothing   *)
(* is saved, and the run takes no further step.                            *)
C17_TerminalFailureAbortsRun ==
    /\ [](AtTerminalFailure =>
             /\ Len(results) = idx - 1
             /\ \A i \in 1 .. Len(trace) :
                   /\ trace[i].ev \in {"append", "score"} => trace[i].q < idx
                   /\ IsRequest(trace[i]) => trace[i].q <= idx
                   /\ (IsRequest(trace[i]) /\ trace[i].q = idx /\ mode = "zero")
                         => trace[i].mode = "zero"
                   /\ trace[i].ev # "save")
    /\ [][pc = "rcc_raise" =>
             /\ TerminalFailure'
             /\ trace' = trace
             /\ results' = results
             /\ disk' = disk]_vars
    /\ [][~TerminalFailure]_vars

C17_Witness ==
    /\ TerminalFailure
    /\ idx = 2
    /\ mode = "zero"
    /\ Len(results) = 1
    /\ trace[Len(trace)] = Event("call_fail", 2, "zero", 1)

(* run_chat_completion has returned an answer to main *)
CallReturned == pc \in {"pause_mid", "score"}

(* C18: with max_retries >= 0, whatever the outcomes of the provider calls, *)
(* the attempt counter of run_chat_completion never exceeds max_retries, a *)
(* call makes at most max_retries+1 attempts, and every call that is       *)
(* started eventually returns an answer or ends in the terminal failure.   *)
C18_CallTerminatesWithinBudget ==
    /\ [](args.max_retries >= 0 =>
             /\ attempt <= args.max_retries
             /\ \A m \in {"zero", "cot"} :
                   Len(SelectSeq(CallEvents(1, m),
                                 LAMBDA e : e.ev # "backoff"))
                      <= args.max_retries + 1)
    /\ (pc = "rcc_loop" /\ args.max_retries >= 0)
          ~> (CallReturned \/ TerminalFailure)

C18_Witness ==
    /\ TerminalFailure
    /\ mode = "cot"
    /\ args.max_retries = 2
    /\ attempt = 2
    /\ Len(CallEvents(1, "zero")) = 3
    /\ Len(CallEvents(1, "cot")) = 5

(* C20: the metadata saved by a run has the replay_file field exactly when *)
(* the answers of the run came from the replay lookup: with the field no   *)
(* answer came from simulate_answer or from the live provider, and without *)
(* the field no answer came from the replay lookup.                        *)
C20_ReplayFileIffReplayUsed ==
    pc = "done" =>
       LET metadata == disk[run_id].json[1].metadata
       IN  IF "replay_file" \in DOMAIN metadata
           THEN Kinds \cap {"simulate", "call_ok", "call_fail"} = {}
           ELSE "replay" \notin Kinds

(* C21: when a run completes, every file present in its run folder,         *)
(* results.json and results.md, holds the entries of that run.             *)
C21_ArtifactsReflectLatestRun ==
    pc = "done" =>
       \A file \in {disk[run_id].json, disk[run_id].md} :
          file # NoFile => file[1].records = results

====
